---- MODULE Spec2Model ----
(***************************************************************************)
(* Model of verify-direct.py: direct submission of the four Claw contracts *)
(* to the Abstract block explorer verification API, followed by status     *)
(* polling and a final report.                                             *)
(*                                                                         *)
(* Python strings are TLA+ strings; they are taken apart with Head, Tail,  *)
(* SubSeq and Len and put together with \o.                                *)
(***************************************************************************)
EXTENDS Integers, Sequences, FiniteSets, TLC

(***************************************************************************)
(* Bounds of the model.                                                    *)
(***************************************************************************)
\* verification identifiers the service may answer with: 0..MaxId
MaxId == 1
\* encode_uint256 is exercised on every integer in -MaxVal..MaxVal
MaxVal == 60

(***************************************************************************)
(* Python values that may be None.                                         *)
(***************************************************************************)
None == [isNone |-> TRUE, v |-> <<>>]

Some(x) == [isNone |-> FALSE, v |-> <<x>>]

Val(o) == o.v[1]

(***************************************************************************)
(* Module constants (lines 14-49).                                         *)
(***************************************************************************)
\* line 18
DEPLOYER == "0x00CC14AF7d9ce9Be4fdf9aE858632a00287edE11"

\* line 24
RendererAddress == "0x90f493bfB740F00E6Cf280f4B9A6943d4b96d274"

\* line 29
RegistryAddress == "0x01949e45FabCD684bcD4747966145140aB4778E5"

\* line 38
EvolutionAddress == "0xed61D90c46343D0399de04a2CDEd195A217aa583"

\* line 44
ReputationAddress == "0x2E031ad274261e1a58C033d61F3b0f310c419904"

\* A Python integer: its sign and its magnitude in 16-bit limbs, most
\* significant first and without leading zero limbs (<<0>> for zero).
PyInt(n) == [neg |-> n < 0, mag |-> <<IF n < 0 THEN -n ELSE n>>]

\* line 65: the mint price literal 500000000000000 = 0x1_c6bf_5263_4000
MintPrice == [neg |-> FALSE, mag |-> <<1, 50879, 21091, 16384>>]

\* line 136: default of max_retries
max_retries == 15

\* line 139: time.sleep(3)
SleepSeconds == 3

\* lines 22-49: CONTRACTS, a dict in insertion order; "args" is "0x" or None
CONTRACTS0 ==
    << [name |-> "ClawRenderer", address |-> RendererAddress,
        source |-> "contracts/ClawRenderer.sol", args |-> Some("0x")],
       [name |-> "ClawRegistry", address |-> RegistryAddress,
        source |-> "contracts/ClawRegistry.sol", args |-> None],
       [name |-> "ClawEvolution", address |-> EvolutionAddress,
        source |-> "contracts/ClawEvolution.sol", args |-> None],
       [name |-> "ClawReputation", address |-> ReputationAddress,
        source |-> "contracts/ClawReputation.sol", args |-> None] >>

(***************************************************************************)
(* Python string primitives used by the encoders.                          *)
(***************************************************************************)
UpperChars == "ABCDEFGHIJKLMNOPQRSTUVWXYZ"

LowerChars == "abcdefghijklmnopqrstuvwxyz"

HexDigits == "0123456789abcdef"

\* s[k-1] in Python terms: the k-th character, a string of length 1
Char(s, k) == SubSeq(s, k, k)

HexChars == { Char(HexDigits, k) : k \in 1..Len(HexDigits) }

\* str.lower(), one character
LowerChar(c) ==
    IF \E k \in 1..Len(UpperChars) : Char(UpperChars, k) = c
    THEN Char(LowerChars, CHOOSE k \in 1..Len(UpperChars) : Char(UpperChars, k) = c)
    ELSE c

\* str.lower()
RECURSIVE Lower(_)
Lower(s) == IF Len(s) = 0 THEN "" ELSE LowerChar(Head(s)) \o Lower(Tail(s))

\* str.replace("0x", ""): every non-overlapping occurrence, left to right
RECURSIVE Remove0x(_)
Remove0x(s) ==
    IF Len(s) = 0 THEN ""
    ELSE IF Len(s) >= 2 /\ SubSeq(s, 1, 2) = "0x"
         THEN Remove0x(SubSeq(s, 3, Len(s)))
         ELSE Head(s) \o Remove0x(Tail(s))

RECURSIVE Zeros(_)
Zeros(n) == IF n <= 0 THEN "" ELSE "0" \o Zeros(n - 1)

\* str.zfill(width): pads on the left, after a leading sign; never truncates
Zfill(s, width) ==
    IF Len(s) >= width THEN s
    ELSE IF Len(s) > 0 /\ Head(s) \in {"+", "-"}
         THEN Head(s) \o Zeros(width - Len(s)) \o Tail(s)
         ELSE Zeros(width - Len(s)) \o s

\* the digits of a non-negative machine integer in base 16, most significant first
RECURSIVE HexDigitsOf(_)
HexDigitsOf(n) ==
    IF n < 16 THEN Char(HexDigits, n + 1)
    ELSE HexDigitsOf(n \div 16) \o Char(HexDigits, (n % 16) + 1)

\* the four hex digits of one 16-bit limb
Hex4(limb) ==
    Char(HexDigits, (limb \div 4096) + 1) \o Char(HexDigits, ((limb \div 256) % 16) + 1)
      \o Char(HexDigits, ((limb \div 16) % 16) + 1) \o Char(HexDigits, (limb % 16) + 1)

\* the digits of a magnitude: the leading limb unpadded, the others in full
RECURSIVE MagDigits(_)
MagDigits(mag) ==
    IF Len(mag) = 1 THEN HexDigitsOf(mag[1])
    ELSE MagDigits(SubSeq(mag, 1, Len(mag) - 1)) \o Hex4(mag[Len(mag)])

\* the builtin hex(): "0x..." and, for a negative integer, "-0x..."
Hex(val) == IF val.neg THEN "-0x" \o MagDigits(val.mag) ELSE "0x" \o MagDigits(val.mag)

(***************************************************************************)
(* Argument encoder (lines 51-71).                                         *)
(***************************************************************************)
encode_address(addr) == Zfill(Remove0x(Lower(addr)), 64)

encode_uint256(val) == Zfill(SubSeq(Hex(val), 3, Len(Hex(val))), 64)

\* dict lookup CONTRACTS[name] on a registry value
Entry(reg, name) == reg[CHOOSE k \in 1..Len(reg) : reg[k].name = name]

\* CONTRACTS[name]["args"] = value
SetArgs(reg, name, value) ==
    [k \in 1..Len(reg) |->
        IF reg[k].name = name THEN [reg[k] EXCEPT !.args = Some(value)] ELSE reg[k]]

\* variant of compute_constructor_args: the assignment of line 71 is missing
compute_constructor_argsPartial(reg) ==
    LET renderer_addr == Entry(reg, "ClawRenderer").address
        registry_addr == Entry(reg, "ClawRegistry").address
        r1 == SetArgs(reg, "ClawRegistry",
                      "0x" \o encode_address(renderer_addr)
                        \o encode_uint256(MintPrice) \o encode_address(DEPLOYER))
    IN  SetArgs(r1, "ClawEvolution", "0x" \o encode_address(registry_addr))

\* the registry after compute_constructor_args()
compute_constructor_args(reg) ==
    LET renderer_addr == Entry(reg, "ClawRenderer").address
        registry_addr == Entry(reg, "ClawRegistry").address
        r1 == SetArgs(reg, "ClawRegistry",
                      "0x" \o encode_address(renderer_addr)
                        \o encode_uint256(MintPrice) \o encode_address(DEPLOYER))
        r2 == SetArgs(r1, "ClawEvolution", "0x" \o encode_address(registry_addr))
    IN  SetArgs(r2, "ClawReputation", "0x" \o encode_address(registry_addr))

(***************************************************************************)
(* The environment: what the file system and the service may answer.       *)
(***************************************************************************)
\* a key that is absent from a JSON object
Missing == "<missing>"

\* dict.get(key, default)
Get(obj, key, default) == IF obj[key] = Missing THEN default ELSE obj[key]

\* load_source_code (lines 73-79): the listing has no .json file (IndexError),
\* the first file does not parse, or "input"/"solcVersion" is absent (KeyError)
LoadOutcomes == {"ok", "no_files", "malformed", "missing_field"}

\* get_zksolc_version (lines 81-94): a contract's metadata holds "zk_version",
\* none does (fallback), or the "output" structure is not the expected nesting
ZksolcOutcomes == {"metadata", "fallback", "error"}

\* identifiers the service hands out; it is free to repeat one
Ids == 0..MaxId

\* submit (lines 117-124): a 2xx answer with an integer body, an HTTPError
\* (non-2xx), a URLError (no connection), a 2xx answer whose body is no integer
SubmitOutcomes ==
    [kind : {"id"}, id : Ids]
      \cup [kind : {"http_error", "url_error", "bad_body"}, id : {0}]

StatusStrings == {"queued", "in_progress", "successful", "failed", "verifying", Missing}

ErrorStrings == {"Bytecode mismatch", Missing}

\* check_status (lines 126-134): the decoded JSON object, or an exception
\* (URLError, HTTPError, JSONDecodeError) raised by urlopen / json.loads
StatusOutcomes ==
    [kind : {"json"}, status : StatusStrings, error : ErrorStrings]
      \cup [kind : {"raise"}, status : {Missing}, error : {Missing}]

(***************************************************************************)
(* State.                                                                  *)
(***************************************************************************)
VARIABLES
    pc,             \* position in main / wait_for_verification
    CONTRACTS,      \* the module-level registry
    source_code,    \* main's locals set by the loader
    solc_version,
    zksolc_version,
    idx,            \* position of the for loop over CONTRACTS.items()
    vid,            \* main's vid for the current entry
    i,              \* iterations completed by the loop of wait_for_verification
    results,        \* main's results dict, in insertion order
    report,         \* the summary lines printed at the end
    exitCode,       \* the process exit status, None while running
    abortCause,     \* which uncaught exception ended the run
    loadOutcome,    \* what load_source_code met
    submitOutcome,  \* per entry: what its submit call met (kind "none" before)
    submits,        \* per entry: submit requests sent
    lastRequest,    \* the body of the latest submit request, None before
    polledIds,      \* per entry: identifiers used in status requests
    firstTerminal,  \* per entry: first "successful"/"failed" status received
    polls,          \* status requests issued by the running poll loop
    slept,          \* seconds slept by the running poll loop
    timeoutPolls,   \* per entry: status requests issued when its loop ran out
    firstPollOnly,  \* every submit so far got an identifier whose first status
                    \* was "successful"
    pollRaised,     \* a status request has raised
    encIn,          \* encoder harness: the argument
    encOut          \* encoder harness: the outcome

mainVars ==
    << pc, CONTRACTS, source_code, solc_version, zksolc_version, idx, vid, i,
       results, report, exitCode, abortCause, loadOutcome, submitOutcome,
       submits, lastRequest, polledIds, firstTerminal, polls, slept, timeoutPolls,
       firstPollOnly, pollRaised >>

encVars == << encIn, encOut >>

vars == << mainVars, encVars >>

N == Len(CONTRACTS0)

NotSubmitted == [kind |-> "none", id |-> 0]

MainInit ==
    /\ pc = "start"
    /\ CONTRACTS = CONTRACTS0
    /\ source_code = None
    /\ solc_version = None
    /\ zksolc_version = None
    /\ idx = 1
    /\ vid = None
    /\ i = 0
    /\ results = <<>>
    /\ report = None
    /\ exitCode = None
    /\ abortCause = "none"
    /\ loadOutcome = "pending"
    /\ submitOutcome = [k \in 1..N |-> NotSubmitted]
    /\ submits = [k \in 1..N |-> 0]
    /\ lastRequest = None
    /\ polledIds = [k \in 1..N |-> {}]
    /\ firstTerminal = [k \in 1..N |-> [state |-> "none", error |-> Missing]]
    /\ polls = 0
    /\ slept = 0
    /\ timeoutPolls = [k \in 1..N |-> 0]
    /\ firstPollOnly = TRUE
    /\ pollRaised = FALSE

EncIdle == /\ encIn = PyInt(0)
           /\ encOut = None

Init == MainInit /\ EncIdle

(***************************************************************************)
(* main (lines 154-196) and the process exit (line 199).                   *)
(***************************************************************************)
\* an exception nobody catches leaves main: traceback, exit status 1
Abort(cause) ==
    /\ pc' = "aborted"
    /\ abortCause' = cause
    /\ exitCode' = Some(1)

\* line 158
ComputeConstructorArgs ==
    /\ pc = "start"
    /\ CONTRACTS' = compute_constructor_args(CONTRACTS)
    /\ pc' = "load"
    /\ UNCHANGED << source_code, solc_version, zksolc_version, idx, vid, i, results,
                    report, exitCode, abortCause, loadOutcome, submitOutcome, submits,
                    lastRequest, polledIds, firstTerminal, polls, slept, timeoutPolls,
                    firstPollOnly, pollRaised, encVars >>

\* variant of load_source_code: a failed load answers (None, None)
load_source_codeLenient(o) ==
    IF o = "ok"
    THEN [raised |-> FALSE, input |-> Some("input"), solcVersion |-> Some("0.8.24")]
    ELSE [raised |-> FALSE, input |-> None, solcVersion |-> None]

\* lines 73-79: what load_source_code returns, or that it raises (IndexError
\* on files[0], JSONDecodeError, KeyError); nothing in it or in main catches
load_source_code(o) ==
    IF o = "ok"
    THEN [raised |-> FALSE, input |-> Some("input"), solcVersion |-> Some("0.8.24")]
    ELSE [raised |-> TRUE, input |-> None, solcVersion |-> None]

\* line 159
LoadSourceCode ==
    /\ pc = "load"
    /\ \E o \in LoadOutcomes :
         LET r == load_source_code(o)
         IN  /\ loadOutcome' = o
             /\ IF r.raised
                THEN /\ Abort("loader")
                     /\ UNCHANGED << source_code, solc_version >>
                ELSE /\ source_code' = r.input
                     /\ solc_version' = r.solcVersion
                     /\ pc' = "zksolc"
                     /\ UNCHANGED << abortCause, exitCode >>
    /\ UNCHANGED << CONTRACTS, zksolc_version, idx, vid, i, results, report,
                    submitOutcome, submits, lastRequest, polledIds, firstTerminal,
                    polls, slept, timeoutPolls, firstPollOnly, pollRaised, encVars >>

\* line 160
GetZksolcVersion ==
    /\ pc = "zksolc"
    /\ \E o \in ZksolcOutcomes :
         IF o = "error"
         THEN /\ Abort("setup")
              /\ UNCHANGED zksolc_version
         ELSE /\ zksolc_version' = Some(IF o = "metadata" THEN "v1.5.7" ELSE "v1.5.10")
              /\ pc' = "loop"
              /\ UNCHANGED << abortCause, exitCode >>
    /\ UNCHANGED << CONTRACTS, source_code, solc_version, idx, vid, i, results, report,
                    loadOutcome, submitOutcome, submits, lastRequest, polledIds,
                    firstTerminal, polls, slept, timeoutPolls, firstPollOnly,
                    pollRaised, encVars >>

\* results[name] = value on an insertion-ordered dict
DictSet(res, name, value) ==
    IF \E k \in 1..Len(res) : res[k].name = name
    THEN [k \in 1..Len(res) |->
            IF res[k].name = name THEN [res[k] EXCEPT !.result = value] ELSE res[k]]
    ELSE Append(res, [name |-> name, result |-> value])

\* lines 98-107: the fields of the request body that come from the registry
Request(contract_name, contract_info) ==
    [ contractAddress |-> contract_info.address,
      contractName |-> contract_info.source \o ":" \o contract_name,
      constructorArguments |-> contract_info.args ]

\* variant of submit_verification: the except clause does not match HTTPError
submit_verificationUncaught(o) ==
    CASE o.kind = "id" -> [raised |-> FALSE, value |-> Some(o.id)]
      [] OTHER -> [raised |-> TRUE, value |-> None]

\* lines 117-124: what submit_verification returns, or that it raises; only
\* urllib.error.HTTPError is caught
submit_verification(o) ==
    CASE o.kind = "id" -> [raised |-> FALSE, value |-> Some(o.id)]
      [] o.kind = "http_error" -> [raised |-> FALSE, value |-> None]
      [] OTHER -> [raised |-> TRUE, value |-> None]

\* the exception that leaves submit_verification
SubmitException(o) == IF o.kind = "url_error" THEN "submit_transport" ELSE "submit_body"

\* variant of PollStep: status.get("status", "successful")
PollStepDefaultSuccessful(status) ==
    LET state == Get(status, "status", "successful")
    IN  IF state = "successful"
        THEN [done |-> TRUE, success |-> TRUE, error |-> Missing]
        ELSE IF state = "failed"
        THEN [done |-> TRUE, success |-> FALSE,
              error |-> Get(status, "error", "Unknown error")]
        ELSE [done |-> FALSE, success |-> FALSE, error |-> Missing]

\* variant of PollStep: the final else branch gives up instead of polling on
PollStepStopOnUnknown(status) ==
    LET state == Get(status, "status", "unknown")
    IN  IF state = "successful"
        THEN [done |-> TRUE, success |-> TRUE, error |-> Missing]
        ELSE IF state = "failed"
        THEN [done |-> TRUE, success |-> FALSE,
              error |-> Get(status, "error", "Unknown error")]
        ELSE IF state \in {"in_progress", "queued"}
        THEN [done |-> FALSE, success |-> FALSE, error |-> Missing]
        ELSE [done |-> TRUE, success |-> FALSE, error |-> "Unknown status"]

\* lines 141-150: one pass through the loop body after check_status returned
PollStep(status) ==
    LET state == Get(status, "status", "unknown")
    IN  IF state = "successful"
        THEN [done |-> TRUE, success |-> TRUE, error |-> Missing]
        ELSE IF state = "failed"
        THEN [done |-> TRUE, success |-> FALSE,
              error |-> Get(status, "error", "Unknown error")]
        ELSE [done |-> FALSE, success |-> FALSE, error |-> Missing]

\* line 152
TimeoutError == "Timeout waiting for verification"

\* lines 179-185: main records what wait_for_verification returned
RecordResult(res, name, success, error) ==
    IF success THEN DictSet(res, name, "VERIFIED")
    ELSE DictSet(res, name, "FAILED: " \o error)

\* line 173
SubmissionError == "FAILED (submission error)"

\* variant of ExitStatus: any(...) in place of all(...)
ExitStatusAny(res) ==
    IF \E k \in 1..Len(res) : res[k].result = "VERIFIED" THEN 0 ELSE 1

\* lines 196 and 199: sys.exit(0 if all(...) else 1)
ExitStatus(res) ==
    IF \A k \in 1..Len(res) : res[k].result = "VERIFIED" THEN 0 ELSE 1

\* variant of NextIndex: the loop takes the same item again
NextIndexStay(k) == k

\* line 167: the for loop moves on to the next item of CONTRACTS.items()
NextIndex(k) == k + 1

\* variant of check_status: a try/except around the request that answers {}
check_statusGuarded(o) ==
    IF o.kind = "raise"
    THEN [raised |-> FALSE, value |-> [status |-> Missing, error |-> Missing]]
    ELSE [raised |-> FALSE, value |-> [status |-> o.status, error |-> o.error]]

\* lines 126-134: what check_status returns, or that it raises; it has no
\* try, and neither has wait_for_verification nor main
check_status(o) ==
    IF o.kind = "raise"
    THEN [raised |-> TRUE, value |-> [status |-> Missing, error |-> Missing]]
    ELSE [raised |-> FALSE, value |-> [status |-> o.status, error |-> o.error]]

\* lines 167-176: the loop takes the next entry, prints it and submits it
SubmitVerification ==
    /\ pc = "loop"
    /\ idx <= Len(CONTRACTS)
    /\ LET info == CONTRACTS[idx]
           name == info.name
       IN  IF info.args.isNone
           THEN \* line 169 slices info['args']: TypeError on None
                /\ Abort("type_error")
                /\ UNCHANGED << idx, vid, i, results, submitOutcome, submits,
                                lastRequest, polls, slept, firstPollOnly >>
           ELSE \E o \in SubmitOutcomes :
                  LET r == submit_verification(o)
                  IN  /\ submits' = [submits EXCEPT ![idx] = @ + 1]
                      /\ lastRequest' = Some(Request(name, info))
                      /\ submitOutcome' = [submitOutcome EXCEPT ![idx] = o]
                      /\ polls' = 0
                      /\ slept' = 0
                      /\ firstPollOnly' = (firstPollOnly /\ o.kind = "id")
                      /\ IF r.raised
                         THEN /\ Abort(SubmitException(o))
                              /\ UNCHANGED << idx, vid, i, results >>
                         ELSE /\ vid' = r.value
                              /\ UNCHANGED << abortCause, exitCode >>
                              /\ IF r.value = None
                                 THEN /\ results' = DictSet(results, name, SubmissionError)
                                      /\ idx' = NextIndex(idx)
                                      /\ pc' = "loop"
                                      /\ UNCHANGED i
                                 ELSE /\ i' = 0
                                      /\ pc' = "wait"
                                      /\ UNCHANGED << idx, results >>
    /\ UNCHANGED << CONTRACTS, source_code, solc_version, zksolc_version, report,
                    loadOutcome, polledIds, firstTerminal, timeoutPolls, pollRaised,
                    encVars >>

\* lines 138-139: the loop of wait_for_verification starts a pass and sleeps
Sleep ==
    /\ pc = "wait"
    /\ i < max_retries
    /\ slept' = slept + SleepSeconds
    /\ pc' = "check"
    /\ UNCHANGED << CONTRACTS, source_code, solc_version, zksolc_version, idx, vid, i,
                    results, report, exitCode, abortCause, loadOutcome, submitOutcome,
                    submits, lastRequest, polledIds, firstTerminal, polls, timeoutPolls,
                    firstPollOnly, pollRaised, encVars >>

\* lines 140-150 and 178-187: one status request and what follows from it
CheckStatus ==
    /\ pc = "check"
    /\ \E o \in StatusOutcomes :
         LET c == check_status(o)
             terminal == o.kind = "json" /\ o.status \in {"successful", "failed"}
         IN
         /\ polledIds' = [polledIds EXCEPT ![idx] = @ \cup {Val(vid)}]
         /\ pollRaised' = (pollRaised \/ o.kind = "raise")
         /\ firstTerminal' =
              IF terminal /\ firstTerminal[idx].state = "none"
              THEN [firstTerminal EXCEPT ![idx] =
                      [state |-> o.status,
                       error |-> IF o.status = "failed" THEN o.error ELSE Missing]]
              ELSE firstTerminal
         /\ firstPollOnly' =
              (firstPollOnly /\ (polls > 0 \/ (o.kind = "json" /\ o.status = "successful")))
         /\ IF c.raised
            THEN /\ Abort("poll_transport")
                 /\ polls' = polls + 1
                 /\ UNCHANGED << idx, i, results, slept >>
            ELSE LET r == PollStep(c.value)
                 IN  /\ UNCHANGED << abortCause, exitCode >>
                     /\ IF r.done
                        THEN /\ results' = RecordResult(results, CONTRACTS[idx].name,
                                                        r.success, r.error)
                             /\ idx' = NextIndex(idx)
                             /\ i' = 0
                             /\ polls' = 0
                             /\ slept' = 0
                             /\ pc' = "loop"
                        ELSE /\ i' = i + 1
                             /\ polls' = polls + 1
                             /\ pc' = "wait"
                             /\ UNCHANGED << idx, results, slept >>
    /\ UNCHANGED << CONTRACTS, source_code, solc_version, zksolc_version, vid, report,
                    loadOutcome, submitOutcome, submits, lastRequest, timeoutPolls,
                    encVars >>

\* lines 152 and 183-185: the for loop is exhausted
TimeoutReturn ==
    /\ pc = "wait"
    /\ i >= max_retries
    /\ results' = RecordResult(results, CONTRACTS[idx].name, FALSE, TimeoutError)
    /\ timeoutPolls' = [timeoutPolls EXCEPT ![idx] = polls]
    /\ idx' = NextIndex(idx)
    /\ i' = 0
    /\ polls' = 0
    /\ slept' = 0
    /\ pc' = "loop"
    /\ UNCHANGED << CONTRACTS, source_code, solc_version, zksolc_version, vid, report,
                    exitCode, abortCause, loadOutcome, submitOutcome, submits,
                    lastRequest, polledIds, firstTerminal, firstPollOnly, pollRaised,
                    encVars >>

\* lines 189-199: the summary is printed and the process exits
Report ==
    /\ pc = "loop"
    /\ idx > Len(CONTRACTS)
    /\ report' = Some(results)
    /\ exitCode' = Some(ExitStatus(results))
    /\ pc' = "done"
    /\ UNCHANGED << CONTRACTS, source_code, solc_version, zksolc_version, idx, vid, i,
                    results, abortCause, loadOutcome, submitOutcome, submits,
                    lastRequest, polledIds, firstTerminal, polls, slept, timeoutPolls,
                    firstPollOnly, pollRaised, encVars >>

Next ==
    \/ ComputeConstructorArgs
    \/ LoadSourceCode
    \/ GetZksolcVersion
    \/ SubmitVerification
    \/ Sleep
    \/ CheckStatus
    \/ TimeoutReturn
    \/ Report

Spec == Init /\ [][Next]_vars

(***************************************************************************)
(* Encoder harness: encode_uint256 applied to every integer of the range   *)
(* and to the literal of line 65.                                          *)
(***************************************************************************)
EncInputs == { PyInt(n) : n \in -MaxVal..MaxVal } \cup {MintPrice}

EncInit == /\ MainInit
           /\ encIn \in EncInputs
           /\ encOut = None

\* the call encode_uint256(encIn): Python raises nothing here, whatever the sign
EncodeUint256 ==
    /\ encOut = None
    /\ encOut' = Some([raised |-> FALSE, value |-> encode_uint256(encIn)])
    /\ UNCHANGED << encIn, mainVars >>

EncNext == EncodeUint256

SpecEnc == EncInit /\ [][EncNext]_vars

(***************************************************************************)
(* Properties.                                                             *)
(***************************************************************************)
Verified(k) == [name |-> CONTRACTS0[k].name, result |-> "VERIFIED"]

Submitted(k) == submits[k] > 0

Polled(k) == polledIds[k] # {}

GotId(k) == submitOutcome[k].kind = "id"

\* C1: when the run reaches its end, the exit status is 0 exactly when each of
\* the 4 registry entries is reported VERIFIED, and 1 otherwise; when every
\* submit got an identifier and every first status was "successful", the
\* report is the 4 VERIFIED entries in registry order and the exit status is 0.
C1_ExitCodeIffAllVerified ==
    pc = "done" =>
      /\ ~report.isNone
      /\ exitCode \in {Some(0), Some(1)}
      /\ (exitCode = Some(0)) <=>
           (\A k \in 1..N : \E j \in 1..Len(Val(report)) : Val(report)[j] = Verified(k))
      /\ firstPollOnly =>
           /\ Val(report) = [k \in 1..N |-> Verified(k)]
           /\ exitCode = Some(0)

C1_Witness ==
    /\ pc = "done"
    /\ firstPollOnly
    /\ \A k \in 1..N : GotId(k) /\ firstTerminal[k].state = "successful"

\* C2: for an entry whose submit returned an identifier, the recorded result
\* follows the first terminal status among its polls: VERIFIED exactly when
\* that status was "successful", FAILED with the service's error string when
\* it was "failed", FAILED with the timeout reason when the budget ran out
\* without either; every poll of the entry used the identifier its own submit
\* returned, and no entry is VERIFIED without a "successful" status for it.
C2_ResultFollowsFirstTerminalStatus ==
    \A k \in 1..Len(results) :
      LET r == results[k].result
          ft == firstTerminal[k]
      IN  /\ results[k].name = CONTRACTS0[k].name
          /\ GotId(k) =>
               /\ polledIds[k] = {submitOutcome[k].id}
               /\ (r = "VERIFIED") <=> (ft.state = "successful")
               /\ (ft.state = "failed" /\ ft.error # Missing) =>
                     r = "FAILED: " \o ft.error
               /\ (ft.state = "failed" /\ ft.error = Missing) =>
                     r = "FAILED: Unknown error"
               /\ ft.state = "none" =>
                     /\ r = "FAILED: Timeout waiting for verification"
                     /\ timeoutPolls[k] = 15
          /\ r = "VERIFIED" => (GotId(k) /\ ft.state = "successful")

C2_Witness ==
    /\ pc = "done"
    /\ \E a, b, c \in 1..N :
         /\ results[a].result = "VERIFIED" /\ firstTerminal[a].state = "successful"
         /\ results[b].result = "FAILED: Bytecode mismatch"
         /\ firstTerminal[b].state = "failed"
         /\ results[c].result = "FAILED: Timeout waiting for verification"
         /\ firstTerminal[c].state = "none" /\ GotId(c)

\* C3: when the submit of an entry gets a non-2xx answer, submit returns no
\* identifier, the entry is recorded as FAILED (submission error), no status
\* request is issued for it, the run moves on to the next entry, and a run
\* that reaches its end has submitted every entry once, polled every entry
\* that got an identifier, and exits with status 1.
C3_SubmitHttpErrorIsRecorded ==
    \A k \in 1..N :
      submitOutcome[k].kind = "http_error" =>
        /\ k <= Len(results)
        /\ results[k] = [name |-> CONTRACTS0[k].name,
                         result |-> "FAILED (submission error)"]
        /\ ~Polled(k)
        /\ idx > k
        /\ (pc = "loop" /\ idx = k + 1) => vid = None
        /\ exitCode # Some(0)
        /\ pc = "done" =>
             /\ exitCode = Some(1)
             /\ \A j \in 1..N : submits[j] = 1 /\ (GotId(j) => Polled(j))

C3_Witness ==
    /\ pc = "done"
    /\ submitOutcome[2].kind = "http_error"
    /\ \A j \in 1..N : j # 2 => results[j] = Verified(j)

\* C4: a poll loop ends only on a "successful" or "failed" status or after its
\* 15th poll; any other status (queued, in_progress, none, unrecognized)
\* leads to another poll.  A loop that saw no terminal status issued exactly
\* 15 status submits, lastRequest, recorded the timeout failure, raised nothing, and the
\* run went on to the next entry.  No loop issues more than 15 requests.
C4_PollLoopBudget ==
    /\ polls <= 15
    /\ i <= 15
    /\ pc \in {"wait", "check"} => (polls = i /\ firstTerminal[idx].state = "none")
    /\ \A k \in 1..N : timeoutPolls[k] \in {0, 15}
    /\ \A k \in 1..Len(results) :
         GotId(k) =>
           /\ firstTerminal[k].state \in {"successful", "failed"} \/ timeoutPolls[k] = 15
           /\ firstTerminal[k].state = "none" =>
                /\ timeoutPolls[k] = 15
                /\ results[k].result = "FAILED: Timeout waiting for verification"
                /\ idx > k
                /\ pc = "aborted" => abortCause # "none" /\ idx <= N /\ Submitted(idx)

C4_Witness ==
    /\ pc = "wait"
    /\ idx = 2
    /\ GotId(1) /\ firstTerminal[1].state = "none" /\ timeoutPolls[1] = 15
    /\ results[1].result = "FAILED: Timeout waiting for verification"

\* C5: whatever the submit call of an entry met, the entry gets a report entry
\* or is being polled, unless a status request raised; the run is aborted only
\* by a loader/setup failure or by a status request that raised.
C5_LocalFailuresBecomeEntries ==
    /\ pc = "aborted" => abortCause \in {"loader", "setup", "poll_transport"}
    /\ \A k \in 1..N :
         submitOutcome[k].kind # "none" =>
           \/ k <= Len(results)
           \/ k = idx /\ (pc \in {"wait", "check"} \/ pollRaised)

\* C6: once a status request has raised, the run is aborted on the spot: that
\* request is the last one, no later entry is submitted or polled, no result
\* is recorded for the current or any later entry, and no report is printed.
C6_PollTransportAborts ==
    pollRaised =>
      /\ pc = "aborted"
      /\ abortCause = "poll_transport"
      /\ report = None
      /\ exitCode = Some(1)
      /\ polls = i + 1
      /\ Len(results) = idx - 1
      /\ \A k \in 1..N : k > idx => (~Submitted(k) /\ ~Polled(k))

C6_Witness ==
    /\ pollRaised
    /\ pc = "aborted"
    /\ idx = 2
    /\ i = 3
    /\ Len(results) = 1

\* C7: when load_source_code fails (no .json file, malformed file, missing
\* field) the run is aborted with no submit request and no status request
\* issued; a network request is only ever issued after a successful load.
C7_LoaderFailureBeforeNetwork ==
    /\ loadOutcome \notin {"pending", "ok"} =>
         /\ pc = "aborted"
         /\ abortCause = "loader"
         /\ report = None
         /\ polls = 0
         /\ \A k \in 1..N : ~Submitted(k) /\ ~Polled(k)
    /\ (\E k \in 1..N : Submitted(k) \/ Polled(k)) => loadOutcome = "ok"

C7_Witness ==
    /\ loadOutcome = "no_files"
    /\ pc = "aborted"

IsPrefixedHex(s) ==
    /\ Len(s) >= 2
    /\ SubSeq(s, 1, 2) = "0x"
    /\ \A k \in 3..Len(s) : Char(s, k) \in HexChars

Resolved(entry) ==
    /\ ~entry.args.isNone
    /\ IsPrefixedHex(Val(entry.args))

AnyRequest == \E k \in 1..N : Submitted(k) \/ Polled(k)

\* C8: whenever a request has been sent, every registry entry's args are a
\* "0x"-prefixed hex string (never None) and the latest submit request carried
\* the address and args of the entry it was sent for; no step that has or
\* leaves a request sent changes the registry.
C8_ArgsResolvedAndFrozen ==
    /\ [](AnyRequest =>
            /\ \A k \in 1..N : Resolved(CONTRACTS[k])
            /\ \E k \in 1..N :
                 /\ Submitted(k)
                 /\ k = IF pc \in {"wait", "check", "aborted"} THEN idx ELSE idx - 1
                 /\ Val(lastRequest).constructorArguments = CONTRACTS[k].args
                 /\ Val(lastRequest).contractAddress = CONTRACTS[k].address)
    /\ [][AnyRequest' => CONTRACTS' = CONTRACTS]_vars

C8_Witness ==
    /\ pc = "done"
    /\ \A k \in 1..N : Submitted(k) /\ Resolved(CONTRACTS[k])
    /\ Len(Val(CONTRACTS[2].args)) = 194

\* C9: entries are handled one at a time in registry order: each is submitted
\* at most once, only after every earlier entry was submitted and has its
\* result recorded, only the current entry can be in polling, and every
\* status request comes after its own 3-second sleep.
C9_SequentialNoResubmit ==
    /\ \A k \in 1..N :
         /\ submits[k] <= 1
         /\ Submitted(k) =>
              /\ k <= idx
              /\ Len(results) >= k - 1
              /\ \A j \in 1..(k - 1) : Submitted(j)
         /\ (Polled(k) /\ k > Len(results)) =>
              (k = idx /\ pc \in {"wait", "check", "aborted"})
    /\ \A k \in 1..Len(results) : results[k].name = CONTRACTS0[k].name
    /\ pc \in {"wait", "check"} => (Len(results) = idx - 1 /\ Submitted(idx))
    /\ pc = "wait" => slept = 3 * polls
    /\ pc = "check" => slept = 3 * (polls + 1)

C9_Witness ==
    /\ pc = "check"
    /\ idx = N
    /\ polls = 2
    /\ submitOutcome[1].kind = "http_error"
    /\ \A k \in 2..N : Polled(k)

\* The part of C10 the code does satisfy: a non-negative integer is encoded as
\* its hex digits left-padded with "0" to 64 characters, all of them hex.
EncodeUint256NonNegative ==
    (~encOut.isNone /\ ~encIn.neg) =>
      /\ ~Val(encOut).raised
      /\ Len(Val(encOut).value) = 64
      /\ \A k \in 1..64 : Char(Val(encOut).value, k) \in HexChars
      /\ Val(encOut).value =
           Zeros(64 - Len(MagDigits(encIn.mag))) \o MagDigits(encIn.mag)

\* C10: encode_uint256 of a negative integer raises and yields no encoding;
\* of a non-negative integer it yields the hex digits left-padded with "0"
\* to 64 characters.
C10_EncodeUint256 ==
    ~encOut.isNone =>
      IF encIn.neg
      THEN Val(encOut).raised
      ELSE /\ ~Val(encOut).raised
           /\ Val(encOut).value =
                Zeros(64 - Len(MagDigits(encIn.mag))) \o MagDigits(encIn.mag)
====
